---- MODULE Spec2Model ----
(***************************************************************************)
(* The server-side per-client track listener (package server,             *)
(* trackListener): the inbound-track handler, the per-track PLI and        *)
(* forwarding goroutines, Close, AddTrack/RemoveTrack, and the Router that *)
(* receives TrackEvents from the unbuffered tracksChannel.                 *)
(*                                                                         *)
(* Every goroutine is a process with a program counter; one action is one  *)
(* step between two points where the goroutine can block or be preempted   *)
(* with an effect other goroutines can see.  An unrecovered panic ends the *)
(* Go program: once panicked is set, no action is enabled.                 *)
(***************************************************************************)
EXTENDS Naturals, Sequences, FiniteSets

\* Remote tracks the session may announce through OnTrack.
NumTracks == 1
\* Goroutines that call Close (each once; concurrently or one after another).
NumClosers == 2
\* Application goroutines that call AddTrack / RemoveTrack.
NumCallers == 2
\* Caller-supplied tracks passed to AddTrack / RemoveTrack.
NumAppTracks == 2
\* RTP senders the session can hand out (caps the number of successful attachments).
MaxSenders == 2
\* Bytes of rtpBuf kept by the model (the source allocates 1400).
BufLen == 2
\* Packets a remote track delivers before its reads block.
MaxPackets == 2
\* Client: remote users a peer connection is created for.
NumUsers == 2
\* Client: Peer objects constructed in one run.
MaxPeers == 2

Tracks == 1..NumTracks
\* One remote track more, for the runs in which two tracks arrive concurrently.
PairTracks == 1..(NumTracks + 1)
Closers == 1..NumClosers
Callers == 1..NumCallers
AppTracks == 1..NumAppTracks
Users == 1..NumUsers

TrackEventTypeAdd == 1
TrackEventTypeRemove == 2

NoPanic == "none"
PanicSendOnClosed == "send on closed channel"
PanicCloseOfClosed == "close of closed channel"

VARIABLES
    localTracks,          \* p.localTracks: sequence of local tracks
    localTracksMu,        \* p.localTracksMu: TRUE while write-locked
    rtpSenderByTrack,     \* p.rtpSenderByTrack: track -> sender
    tracksChannel,        \* p.tracksChannel: "open" | "closed" (unbuffered)
    tracksChannelClosed,  \* p.tracksChannelClosed
    closeChannel,         \* p.closeChannel: "open" | "closed"
    mu,                   \* p.mu: [readers |-> Nat, writer |-> BOOLEAN]
    closeOnce,            \* p.closeOnce: [done |-> BOOLEAN, m |-> BOOLEAN]
    hpc,                  \* handleTrack goroutine of each remote track
    wpc,                  \* forwarding goroutine of each remote track
    pliPc,                \* PLI goroutine of each remote track
    ticker,               \* time.Ticker of each remote track
    cpc,                  \* each Close caller
    apc,                  \* each AddTrack/RemoveTrack caller: [op, track]
    nextSender,           \* senders handed out by the session so far
    sessionSenders,       \* senders currently attached to the session
    sessionRemoveCalls,   \* calls of peerConnection.RemoveTrack so far
    lastCall,             \* the AddTrack/RemoveTrack call that returned last: [op, track, err]
    routerReceiving,      \* the Router is still receiving from TracksChannel()
    delivered,            \* per local track: the types of the TrackEvents the Router has
                          \* received for it, in the order it received them
    panicked,             \* NoPanic, or the runtime panic that ended the program
    rtpBuf,               \* rtpBuf of each forwarding goroutine
    readLog,              \* per remote track: the packets remoteTrack.Read returned
    writeLog,             \* per local track: the arguments of localTrack.Write
    peers,                \* client store: getState().peers, userId -> Peer (0: none)
    peerUser,             \* client: the user of each Peer constructed, in order
    destroyed,            \* client: the Peers whose destroy() was called
    onceError,            \* client: the Peers whose once(error) handler is still registered
    onceClose,            \* client: the Peers whose once(close) handler is still registered
    dispatched            \* client: the peer actions dispatched, in order

listenerVars == <<localTracks, localTracksMu, rtpSenderByTrack, tracksChannel,
                  tracksChannelClosed, closeChannel, mu, closeOnce>>
trackVars == <<hpc, wpc, pliPc, ticker>>
apiVars == <<apc, nextSender, sessionSenders, sessionRemoveCalls, lastCall>>
copyVars == <<rtpBuf, readLog, writeLog>>
clientVars == <<peers, peerUser, destroyed, onceError, onceClose, dispatched>>
vars == <<localTracks, localTracksMu, rtpSenderByTrack, tracksChannel,
          tracksChannelClosed, closeChannel, mu, closeOnce, hpc, wpc, pliPc,
          ticker, cpc, apc, nextSender, sessionSenders, sessionRemoveCalls,
          lastCall, routerReceiving, delivered, panicked, rtpBuf, readLog, writeLog,
          peers, peerUser, destroyed, onceError, onceClose, dispatched>>

Running == panicked = NoPanic

\* A byte of an RTP packet.  The listener never inspects packet contents, so a byte is
\* identified by its origin: the remote track and the number of the read that
\* delivered it; ZeroByte is a byte of a freshly made buffer.
ZeroByte == <<0, 0>>

\* newTrackListener: empty map, fresh open channels, nothing started; T are the remote
\* tracks of the session.  The client store starts without peers.
InitOn(T) ==
    /\ localTracks = <<>>
    /\ localTracksMu = FALSE
    /\ rtpSenderByTrack = [t \in {} |-> 0]
    /\ tracksChannel = "open"
    /\ tracksChannelClosed = FALSE
    /\ closeChannel = "open"
    /\ mu = [readers |-> 0, writer |-> FALSE]
    /\ closeOnce = [done |-> FALSE, m |-> FALSE]
    /\ hpc = [t \in T |-> "idle"]
    /\ wpc = [t \in T |-> "none"]
    /\ pliPc = [t \in T |-> "none"]
    /\ ticker = [t \in T |-> "none"]
    /\ cpc = [c \in Closers |-> "idle"]
    /\ apc = [a \in Callers |-> [op |-> "idle", track |-> 0]]
    /\ nextSender = 0
    /\ sessionSenders = {}
    /\ sessionRemoveCalls = 0
    /\ lastCall = [op |-> "none", track |-> 0, err |-> "nil"]
    /\ routerReceiving = TRUE
    /\ delivered = [t \in T |-> <<>>]
    /\ panicked = NoPanic
    /\ rtpBuf = [t \in T |-> [i \in 1..BufLen |-> ZeroByte]]
    /\ readLog = [t \in T |-> <<>>]
    /\ writeLog = [t \in T |-> <<>>]
    /\ peers = [u \in Users |-> 0]
    /\ peerUser = <<>>
    /\ destroyed = {}
    /\ onceError = {}
    /\ onceClose = {}
    /\ dispatched = <<>>

Init == InitOn(Tracks)

(***************************************************************************)
(* handleTrack and startCopyingTrack                                       *)
(***************************************************************************)

\* startCopyingTrack after NewTrack succeeded: the ticker is created and the PLI and
\* forwarding goroutines are started before the local track is returned.
startCopyingTrack(t) ==
    /\ ticker' = [ticker EXCEPT ![t] = "running"]
    /\ pliPc' = [pliPc EXCEPT ![t] = "first"]
    /\ wpc' = [wpc EXCEPT ![t] = "loop"]

\* handleTrack with startCopyingTrack starting its goroutines before NewTrack's error
\* is looked at.
handleTrackStartsOnError(t) ==
    /\ Running
    /\ hpc[t] = "idle"
    /\ startCopyingTrack(t)
    /\ \/ hpc' = [hpc EXCEPT ![t] = "failed"]
       \/ hpc' = [hpc EXCEPT ![t] = "append"]
    /\ UNCHANGED <<listenerVars, cpc, apiVars, routerReceiving, delivered, panicked,
                   copyVars, clientVars>>

\* handleTrack up to its first lock: startCopyingTrack either fails in NewTrack (the
\* handler logs and returns) or returns the local track with both goroutines running.
handleTrack(t) ==
    /\ Running
    /\ hpc[t] = "idle"
    /\ \/ /\ hpc' = [hpc EXCEPT ![t] = "failed"]
          /\ UNCHANGED <<wpc, pliPc, ticker>>
       \/ /\ startCopyingTrack(t)
          /\ hpc' = [hpc EXCEPT ![t] = "append"]
    /\ UNCHANGED <<listenerVars, cpc, apiVars, routerReceiving, delivered, panicked,
                   copyVars, clientVars>>

\* handleTrack: localTracksMu.Lock(); append; Unlock().
handleTrackAppend(t) ==
    /\ Running
    /\ hpc[t] = "append"
    /\ ~localTracksMu
    /\ localTracks' = Append(localTracks, t)
    /\ hpc' = [hpc EXCEPT ![t] = "send"]
    /\ UNCHANGED <<localTracksMu, rtpSenderByTrack, tracksChannel, tracksChannelClosed,
                   closeChannel, mu, closeOnce, wpc, pliPc, ticker, cpc, apiVars,
                   routerReceiving, delivered, panicked,
                   copyVars, clientVars>>

\* handleTrackSend with the handler sending again instead of returning.
handleTrackSendAgain(t) ==
    /\ Running
    /\ hpc[t] = "send"
    /\ tracksChannel = "open"
    /\ routerReceiving
    /\ delivered' = [delivered EXCEPT ![t] = Append(@, TrackEventTypeAdd)]
    /\ UNCHANGED <<listenerVars, hpc, wpc, pliPc, ticker, cpc, apiVars, routerReceiving,
                   panicked,
                   copyVars, clientVars>>

\* handleTrack: p.tracksChannel <- TrackEvent{..., TrackEventTypeAdd}, completed by
\* the Router's receive (the channel is unbuffered); then the handler returns.
handleTrackSend(t) ==
    /\ Running
    /\ hpc[t] = "send"
    /\ tracksChannel = "open"
    /\ routerReceiving
    /\ delivered' = [delivered EXCEPT ![t] = Append(@, TrackEventTypeAdd)]
    /\ hpc' = [hpc EXCEPT ![t] = "done"]
    /\ UNCHANGED <<listenerVars, wpc, pliPc, ticker, cpc, apiVars, routerReceiving,
                   panicked,
                   copyVars, clientVars>>

(***************************************************************************)
(* The PLI goroutine of startCopyingTrack                                  *)
(***************************************************************************)

\* writeRTCP() once on start; a WriteRTCP error is logged and ignored.
pliFirst(t) ==
    /\ Running
    /\ pliPc[t] = "first"
    /\ pliPc' = [pliPc EXCEPT ![t] = "waiting"]
    /\ UNCHANGED <<listenerVars, hpc, wpc, ticker, cpc, apiVars, routerReceiving,
                   delivered, panicked,
                   copyVars, clientVars>>

\* for range ticker.C: the goroutine receives a tick, which arrives only while the
\* ticker runs.  ticker.Stop() does not close ticker.C, so the range never ends: the
\* goroutine has no step that leaves the loop.
pliTick(t) ==
    /\ Running
    /\ pliPc[t] = "waiting"
    /\ ticker[t] = "running"
    /\ pliPc' = [pliPc EXCEPT ![t] = "tick"]
    /\ UNCHANGED <<listenerVars, hpc, wpc, ticker, cpc, apiVars, routerReceiving,
                   delivered, panicked, copyVars, clientVars>>

\* The loop body: writeRTCP() sends a PLI; then the goroutine waits for the next tick.
pliWrite(t) ==
    /\ Running
    /\ pliPc[t] = "tick"
    /\ pliPc' = [pliPc EXCEPT ![t] = "waiting"]
    /\ UNCHANGED <<listenerVars, hpc, wpc, ticker, cpc, apiVars, routerReceiving,
                   delivered, panicked, copyVars, clientVars>>

(***************************************************************************)
(* The forwarding goroutine of startCopyingTrack                           *)
(***************************************************************************)

WriteResults == {"nil", "ErrClosedPipe", "error"}

\* forwardCopy with the loop taking p.mu.RLock for each iteration.
forwardCopyUnderLock(t) ==
    /\ Running
    /\ wpc[t] = "loop"
    /\ mu.readers = 0
    /\ ~mu.writer
    /\ \/ wpc' = [wpc EXCEPT ![t] = "exitRead"]
       \/ \E err \in WriteResults :
             wpc' = [wpc EXCEPT ![t] = CASE err = "nil" -> "loop"
                                         [] err = "ErrClosedPipe" -> "closedPipe"
                                         [] OTHER -> "exitWrite"]
    /\ UNCHANGED <<listenerVars, hpc, pliPc, ticker, cpc, apiVars, routerReceiving,
                   delivered, panicked, copyVars, clientVars>>

\* One iteration of the loop: remoteTrack.Read(rtpBuf), and on a packet
\* localTrack.Write(rtpBuf[:i]).  A read error ends the loop; a write returns nil
\* (next iteration) or an error, which the goroutine holds at the test in line 236.
\* The packet bytes are left out here; forwardCopyPacket is the same step with them.
forwardCopy(t) ==
    /\ Running
    /\ wpc[t] = "loop"
    /\ \/ wpc' = [wpc EXCEPT ![t] = "exitRead"]
       \/ \E err \in WriteResults :
             wpc' = [wpc EXCEPT ![t] = CASE err = "nil" -> "loop"
                                         [] err = "ErrClosedPipe" -> "closedPipe"
                                         [] OTHER -> "exitWrite"]
    /\ UNCHANGED <<listenerVars, hpc, pliPc, ticker, cpc, apiVars, routerReceiving,
                   delivered, panicked, copyVars, clientVars>>

\* Packet number k of remote track t, n bytes long.
Packet(t, k, n) == [i \in 1..n |-> <<t, k>>]

\* rtpBuf after remoteTrack.Read(rtpBuf) stored packet p: Read fills the first Len(p)
\* bytes and leaves the bytes behind them as they were.
ReadInto(buf, p) == [i \in 1..BufLen |-> IF i <= Len(p) THEN p[i] ELSE buf[i]]

\* rtpBuf[:i]
Slice(buf, i) == SubSeq(buf, 1, i)

\* forwardCopyPacket with localTrack.Write(rtpBuf) in place of Write(rtpBuf[:i]).
forwardCopyWholeBuffer(t) ==
    /\ Running
    /\ wpc[t] = "loop"
    /\ \/ /\ wpc' = [wpc EXCEPT ![t] = "exitRead"]
          /\ UNCHANGED copyVars
       \/ /\ Len(readLog[t]) < MaxPackets
          /\ \E n \in 1..BufLen, err \in WriteResults :
                LET p == Packet(t, Len(readLog[t]) + 1, n)
                    buf == ReadInto(rtpBuf[t], p) IN
                /\ rtpBuf' = [rtpBuf EXCEPT ![t] = buf]
                /\ readLog' = [readLog EXCEPT ![t] = Append(@, p)]
                /\ writeLog' = [writeLog EXCEPT ![t] = Append(@, buf)]
                /\ wpc' = [wpc EXCEPT ![t] = CASE err = "nil" -> "loop"
                                            [] err = "ErrClosedPipe" -> "closedPipe"
                                            [] OTHER -> "exitWrite"]
    /\ UNCHANGED <<listenerVars, hpc, pliPc, ticker, cpc, apiVars, routerReceiving,
                   delivered, panicked, clientVars>>

\* forwardCopy with the packet bytes: Read returns an error, or stores the next
\* packet of the remote track (n bytes) in rtpBuf and returns n; then
\* localTrack.Write(rtpBuf[:n]) is called and returns nil or an error.  readLog
\* records what Read delivered, writeLog what Write was handed.
forwardCopyPacket(t) ==
    /\ Running
    /\ wpc[t] = "loop"
    /\ \/ /\ wpc' = [wpc EXCEPT ![t] = "exitRead"]
          /\ UNCHANGED copyVars
       \/ /\ Len(readLog[t]) < MaxPackets
          /\ \E n \in 1..BufLen, err \in WriteResults :
                LET p == Packet(t, Len(readLog[t]) + 1, n)
                    buf == ReadInto(rtpBuf[t], p) IN
                /\ rtpBuf' = [rtpBuf EXCEPT ![t] = buf]
                /\ readLog' = [readLog EXCEPT ![t] = Append(@, p)]
                /\ writeLog' = [writeLog EXCEPT ![t] = Append(@, Slice(buf, n))]
                /\ wpc' = [wpc EXCEPT ![t] = CASE err = "nil" -> "loop"
                                            [] err = "ErrClosedPipe" -> "closedPipe"
                                            [] OTHER -> "exitWrite"]
    /\ UNCHANGED <<listenerVars, hpc, pliPc, ticker, cpc, apiVars, routerReceiving,
                   delivered, panicked, clientVars>>

\* err != nil && err != io.ErrClosedPipe is false for io.ErrClosedPipe: the loop goes on.
forwardClosedPipe(t) ==
    /\ Running
    /\ wpc[t] = "closedPipe"
    /\ wpc' = [wpc EXCEPT ![t] = "loop"]
    /\ UNCHANGED <<listenerVars, hpc, pliPc, ticker, cpc, apiVars, routerReceiving,
                   delivered, panicked,
                   copyVars, clientVars>>

\* forwardExit without the deferred emit: only the deferred ticker.Stop() runs.
forwardExitNoRemove(t) ==
    /\ Running
    /\ wpc[t] \in {"exitRead", "exitWrite"}
    /\ wpc' = [wpc EXCEPT ![t] = "stopped"]
    /\ ticker' = [ticker EXCEPT ![t] = "stopped"]
    /\ UNCHANGED <<listenerVars, hpc, pliPc, cpc, apiVars, routerReceiving, delivered,
                   panicked,
                   copyVars, clientVars>>

\* forwardExit with RUnlock straight after the test: the send is made without the lock.
forwardExitUnlocked(t) ==
    /\ Running
    /\ wpc[t] \in {"exitRead", "exitWrite"}
    /\ ~mu.writer
    /\ IF tracksChannelClosed
       THEN /\ wpc' = [wpc EXCEPT ![t] = "stopped"]
            /\ ticker' = [ticker EXCEPT ![t] = "stopped"]
       ELSE /\ wpc' = [wpc EXCEPT ![t] = "send"]
            /\ UNCHANGED ticker
    /\ UNCHANGED <<localTracks, localTracksMu, rtpSenderByTrack, tracksChannel,
                   tracksChannelClosed, closeChannel, mu, closeOnce, hpc, pliPc, cpc,
                   apiVars, routerReceiving, delivered, panicked, copyVars, clientVars>>

\* The deferred function on exit: p.mu.RLock(), then the test of tracksChannelClosed.
\* Closed: RUnlock, then the deferred ticker.Stop().  Not closed: the goroutine goes
\* on to the send with the read lock held.
forwardExit(t) ==
    /\ Running
    /\ wpc[t] \in {"exitRead", "exitWrite"}
    /\ ~mu.writer
    /\ IF tracksChannelClosed
       THEN /\ wpc' = [wpc EXCEPT ![t] = "stopped"]
            /\ ticker' = [ticker EXCEPT ![t] = "stopped"]
            /\ UNCHANGED mu
       ELSE /\ wpc' = [wpc EXCEPT ![t] = "send"]
            /\ mu' = [mu EXCEPT !.readers = @ + 1]
            /\ UNCHANGED ticker
    /\ UNCHANGED <<localTracks, localTracksMu, rtpSenderByTrack, tracksChannel,
                   tracksChannelClosed, closeChannel, closeOnce, hpc, pliPc, cpc,
                   apiVars, routerReceiving, delivered, panicked,
                   copyVars, clientVars>>

\* p.tracksChannel <- TrackEvent{..., TrackEventTypeRemove} under the read lock,
\* completed by the Router's receive; then RUnlock and the deferred ticker.Stop().
forwardSend(t) ==
    /\ Running
    /\ wpc[t] = "send"
    /\ tracksChannel = "open"
    /\ routerReceiving
    /\ delivered' = [delivered EXCEPT ![t] = Append(@, TrackEventTypeRemove)]
    /\ mu' = [mu EXCEPT !.readers = @ - 1]
    /\ ticker' = [ticker EXCEPT ![t] = "stopped"]
    /\ wpc' = [wpc EXCEPT ![t] = "stopped"]
    /\ UNCHANGED <<localTracks, localTracksMu, rtpSenderByTrack, tracksChannel,
                   tracksChannelClosed, closeChannel, closeOnce, hpc, pliPc, cpc,
                   apiVars, routerReceiving, panicked,
                   copyVars, clientVars>>

\* A send on tracksChannel, pending or new, once the channel is closed: the Go
\* runtime panics in the sending goroutine (handleTrack line 135, forwarding line 218).
sendOnClosedChannel(t) ==
    /\ Running
    /\ hpc[t] = "send" \/ wpc[t] = "send"
    /\ tracksChannel = "closed"
    /\ panicked' = PanicSendOnClosed
    /\ UNCHANGED <<listenerVars, trackVars, cpc, apiVars, routerReceiving, delivered,
                   copyVars, clientVars>>

(***************************************************************************)
(* Close                                                                   *)
(***************************************************************************)

\* A goroutine calls p.Close().
CloseCall(c) ==
    /\ Running
    /\ cpc[c] = "idle"
    /\ cpc' = [cpc EXCEPT ![c] = "do"]
    /\ UNCHANGED <<listenerVars, trackVars, apiVars, routerReceiving, delivered, panicked,
                   copyVars, clientVars>>

\* closeOnceDo without the Once: every caller runs the function.
closeOnceDoAlways(c) ==
    /\ Running
    /\ cpc[c] = "do"
    /\ cpc' = [cpc EXCEPT ![c] = "signal"]
    /\ UNCHANGED <<listenerVars, trackVars, apiVars, routerReceiving, delivered, panicked,
                   copyVars, clientVars>>

\* p.closeOnce.Do: return at once when done; else take the Once's mutex and run the
\* function; a caller arriving while it runs waits for the mutex.
closeOnceDo(c) ==
    /\ Running
    /\ cpc[c] = "do"
    /\ IF closeOnce.done
       THEN /\ cpc' = [cpc EXCEPT ![c] = "returned"]
            /\ UNCHANGED closeOnce
       ELSE /\ ~closeOnce.m
            /\ closeOnce' = [closeOnce EXCEPT !.m = TRUE]
            /\ cpc' = [cpc EXCEPT ![c] = "signal"]
    /\ UNCHANGED <<localTracks, localTracksMu, rtpSenderByTrack, tracksChannel,
                   tracksChannelClosed, closeChannel, mu, trackVars, apiVars,
                   routerReceiving, delivered, panicked,
                   copyVars, clientVars>>

\* close(p.closeChannel); closing a closed channel panics.
CloseSignal(c) ==
    /\ Running
    /\ cpc[c] = "signal"
    /\ IF closeChannel = "closed"
       THEN /\ panicked' = PanicCloseOfClosed
            /\ UNCHANGED <<closeChannel, cpc>>
       ELSE /\ closeChannel' = "closed"
            /\ cpc' = [cpc EXCEPT ![c] = "lock"]
            /\ UNCHANGED panicked
    /\ UNCHANGED <<localTracks, localTracksMu, rtpSenderByTrack, tracksChannel,
                   tracksChannelClosed, mu, closeOnce, trackVars, apiVars,
                   routerReceiving, delivered,
                   copyVars, clientVars>>

\* p.mu.Lock(): waits until no reader and no writer holds p.mu.
CloseLock(c) ==
    /\ Running
    /\ cpc[c] = "lock"
    /\ mu.readers = 0
    /\ ~mu.writer
    /\ mu' = [mu EXCEPT !.writer = TRUE]
    /\ cpc' = [cpc EXCEPT ![c] = "locked"]
    /\ UNCHANGED <<localTracks, localTracksMu, rtpSenderByTrack, tracksChannel,
                   tracksChannelClosed, closeChannel, closeOnce, trackVars, apiVars,
                   routerReceiving, delivered, panicked,
                   copyVars, clientVars>>

\* CloseChannel that sets the flag but leaves tracksChannel open.
CloseChannelLeftOpen(c) ==
    /\ Running
    /\ cpc[c] = "locked"
    /\ tracksChannelClosed' = TRUE
    /\ mu' = [mu EXCEPT !.writer = FALSE]
    /\ closeOnce' = [done |-> TRUE, m |-> FALSE]
    /\ cpc' = [cpc EXCEPT ![c] = "returned"]
    /\ UNCHANGED <<localTracks, localTracksMu, rtpSenderByTrack, tracksChannel,
                   closeChannel, trackVars, apiVars, routerReceiving, delivered, panicked,
                   copyVars, clientVars>>

\* close(p.tracksChannel); p.tracksChannelClosed = true; the deferred p.mu.Unlock();
\* the Once records done and releases its mutex; Close returns.
CloseChannel(c) ==
    /\ Running
    /\ cpc[c] = "locked"
    /\ IF tracksChannel = "closed"
       THEN /\ panicked' = PanicCloseOfClosed
            /\ UNCHANGED <<tracksChannel, tracksChannelClosed, mu, closeOnce, cpc>>
       ELSE /\ tracksChannel' = "closed"
            /\ tracksChannelClosed' = TRUE
            /\ mu' = [mu EXCEPT !.writer = FALSE]
            /\ closeOnce' = [done |-> TRUE, m |-> FALSE]
            /\ cpc' = [cpc EXCEPT ![c] = "returned"]
            /\ UNCHANGED panicked
    /\ UNCHANGED <<localTracks, localTracksMu, rtpSenderByTrack, closeChannel,
                   trackVars, apiVars, routerReceiving, delivered,
                   copyVars, clientVars>>

(***************************************************************************)
(* The Router                                                              *)
(***************************************************************************)

\* The Router stops receiving from TracksChannel() (nothing obliges it to drain).
RouterStop ==
    /\ Running
    /\ routerReceiving
    /\ routerReceiving' = FALSE
    /\ UNCHANGED <<listenerVars, trackVars, cpc, apiVars, delivered, panicked,
                   copyVars, clientVars>>

(***************************************************************************)
(* AddTrack and RemoveTrack                                                *)
(***************************************************************************)

\* The map with the entry of track t deleted: delete(p.rtpSenderByTrack, track).
MapDelete(m, t) == [x \in DOMAIN m \ {t} |-> m[x]]

\* The map with track t set to sender s: p.rtpSenderByTrack[track] = rtpSender.
MapPut(m, t, s) == [x \in DOMAIN m \cup {t} |-> IF x = t THEN s ELSE m[x]]

\* AddTrack(track) is called and takes localTracksMu.
AddTrackLock(a) ==
    /\ Running
    /\ apc[a].op = "idle"
    /\ ~localTracksMu
    /\ localTracksMu' = TRUE
    /\ \E t \in AppTracks : apc' = [apc EXCEPT ![a] = [op |-> "AddTrack", track |-> t]]
    /\ UNCHANGED <<localTracks, rtpSenderByTrack, tracksChannel, tracksChannelClosed,
                   closeChannel, mu, closeOnce, trackVars, cpc, nextSender,
                   sessionSenders, sessionRemoveCalls, lastCall, routerReceiving,
                   delivered, panicked,
                   copyVars, clientVars>>

\* AddTrack without the return on error: the nil sender of a refused attachment is
\* recorded too.
AddTrackRecordsOnError(a) ==
    /\ Running
    /\ apc[a].op = "AddTrack"
    /\ LET t == apc[a].track IN
       \/ /\ lastCall' = [op |-> "AddTrack", track |-> t, err |-> "AttachFailed"]
          /\ rtpSenderByTrack' = MapPut(rtpSenderByTrack, t, 0)
          /\ UNCHANGED <<nextSender, sessionSenders>>
       \/ /\ nextSender < MaxSenders
          /\ nextSender' = nextSender + 1
          /\ sessionSenders' = sessionSenders \cup {nextSender + 1}
          /\ rtpSenderByTrack' = MapPut(rtpSenderByTrack, t, nextSender + 1)
          /\ lastCall' = [op |-> "AddTrack", track |-> t, err |-> "nil"]
    /\ apc' = [apc EXCEPT ![a] = [op |-> "idle", track |-> 0]]
    /\ localTracksMu' = FALSE
    /\ UNCHANGED <<localTracks, tracksChannel, tracksChannelClosed, closeChannel, mu,
                   closeOnce, trackVars, cpc, sessionRemoveCalls, routerReceiving,
                   delivered, panicked,
                   copyVars, clientVars>>

\* AddTrack under the lock: peerConnection.AddTrack(track) returns an error (AddTrack
\* returns it wrapped) or a new sender, which is recorded; the lock is released.
AddTrack(a) ==
    /\ Running
    /\ apc[a].op = "AddTrack"
    /\ LET t == apc[a].track IN
       \/ /\ lastCall' = [op |-> "AddTrack", track |-> t, err |-> "AttachFailed"]
          /\ UNCHANGED <<rtpSenderByTrack, nextSender, sessionSenders>>
       \/ /\ nextSender < MaxSenders
          /\ nextSender' = nextSender + 1
          /\ sessionSenders' = sessionSenders \cup {nextSender + 1}
          /\ rtpSenderByTrack' = MapPut(rtpSenderByTrack, t, nextSender + 1)
          /\ lastCall' = [op |-> "AddTrack", track |-> t, err |-> "nil"]
    /\ apc' = [apc EXCEPT ![a] = [op |-> "idle", track |-> 0]]
    /\ localTracksMu' = FALSE
    /\ UNCHANGED <<localTracks, tracksChannel, tracksChannelClosed, closeChannel, mu,
                   closeOnce, trackVars, cpc, sessionRemoveCalls, routerReceiving,
                   delivered, panicked,
                   copyVars, clientVars>>

\* RemoveTrackLock without the mutex: the caller enters the body at once.
RemoveTrackNoLock(a) ==
    /\ Running
    /\ apc[a].op = "idle"
    /\ localTracksMu' = TRUE
    /\ \E t \in AppTracks : apc' = [apc EXCEPT ![a] = [op |-> "RemoveTrack", track |-> t]]
    /\ UNCHANGED <<localTracks, rtpSenderByTrack, tracksChannel, tracksChannelClosed,
                   closeChannel, mu, closeOnce, trackVars, cpc, nextSender,
                   sessionSenders, sessionRemoveCalls, lastCall, routerReceiving,
                   delivered, panicked, copyVars, clientVars>>

\* RemoveTrack(track) is called and takes localTracksMu.
RemoveTrackLock(a) ==
    /\ Running
    /\ apc[a].op = "idle"
    /\ ~localTracksMu
    /\ localTracksMu' = TRUE
    /\ \E t \in AppTracks : apc' = [apc EXCEPT ![a] = [op |-> "RemoveTrack", track |-> t]]
    /\ UNCHANGED <<localTracks, rtpSenderByTrack, tracksChannel, tracksChannelClosed,
                   closeChannel, mu, closeOnce, trackVars, cpc, nextSender,
                   sessionSenders, sessionRemoveCalls, lastCall, routerReceiving,
                   delivered, panicked,
                   copyVars, clientVars>>

\* RemoveTrack without the test of ok: the session is asked to remove the (nil)
\* sender of an unknown track as well.
RemoveTrackNoLookupTest(a) ==
    /\ Running
    /\ apc[a].op = "RemoveTrack"
    /\ LET t == apc[a].track
           known == t \in DOMAIN rtpSenderByTrack IN
       /\ rtpSenderByTrack' = MapDelete(rtpSenderByTrack, t)
       /\ sessionRemoveCalls' = sessionRemoveCalls + 1
       /\ \/ /\ sessionSenders' = IF known THEN sessionSenders \ {rtpSenderByTrack[t]}
                                           ELSE sessionSenders
             /\ lastCall' = [op |-> "RemoveTrack", track |-> t, err |-> "nil"]
          \/ /\ lastCall' = [op |-> "RemoveTrack", track |-> t, err |-> "DetachFailed"]
             /\ UNCHANGED sessionSenders
    /\ apc' = [apc EXCEPT ![a] = [op |-> "idle", track |-> 0]]
    /\ localTracksMu' = FALSE
    /\ UNCHANGED <<localTracks, tracksChannel, tracksChannelClosed, closeChannel, mu,
                   closeOnce, trackVars, cpc, nextSender, routerReceiving, delivered,
                   panicked,
                   copyVars, clientVars>>

\* RemoveTrack without delete(p.rtpSenderByTrack, track).
RemoveTrackNoDelete(a) ==
    /\ Running
    /\ apc[a].op = "RemoveTrack"
    /\ LET t == apc[a].track IN
       IF t \notin DOMAIN rtpSenderByTrack
       THEN /\ lastCall' = [op |-> "RemoveTrack", track |-> t, err |-> "UnknownTrack"]
            /\ UNCHANGED <<sessionSenders, sessionRemoveCalls>>
       ELSE /\ sessionRemoveCalls' = sessionRemoveCalls + 1
            /\ \/ /\ sessionSenders' = sessionSenders \ {rtpSenderByTrack[t]}
                  /\ lastCall' = [op |-> "RemoveTrack", track |-> t, err |-> "nil"]
               \/ /\ lastCall' = [op |-> "RemoveTrack", track |-> t, err |-> "DetachFailed"]
                  /\ UNCHANGED sessionSenders
    /\ UNCHANGED rtpSenderByTrack
    /\ apc' = [apc EXCEPT ![a] = [op |-> "idle", track |-> 0]]
    /\ localTracksMu' = FALSE
    /\ UNCHANGED <<localTracks, tracksChannel, tracksChannelClosed, closeChannel, mu,
                   closeOnce, trackVars, cpc, nextSender, routerReceiving, delivered,
                   panicked,
                   copyVars, clientVars>>

\* RemoveTrack under the lock: no sender recorded, an error; else the entry is deleted
\* and the result of peerConnection.RemoveTrack(rtpSender) is returned.
RemoveTrack(a) ==
    /\ Running
    /\ apc[a].op = "RemoveTrack"
    /\ LET t == apc[a].track IN
       IF t \notin DOMAIN rtpSenderByTrack
       THEN /\ lastCall' = [op |-> "RemoveTrack", track |-> t, err |-> "UnknownTrack"]
            /\ UNCHANGED <<rtpSenderByTrack, sessionSenders, sessionRemoveCalls>>
       ELSE /\ rtpSenderByTrack' = MapDelete(rtpSenderByTrack, t)
            /\ sessionRemoveCalls' = sessionRemoveCalls + 1
            /\ \/ /\ sessionSenders' = sessionSenders \ {rtpSenderByTrack[t]}
                  /\ lastCall' = [op |-> "RemoveTrack", track |-> t, err |-> "nil"]
               \/ /\ lastCall' = [op |-> "RemoveTrack", track |-> t, err |-> "DetachFailed"]
                  /\ UNCHANGED sessionSenders
    /\ apc' = [apc EXCEPT ![a] = [op |-> "idle", track |-> 0]]
    /\ localTracksMu' = FALSE
    /\ UNCHANGED <<localTracks, tracksChannel, tracksChannelClosed, closeChannel, mu,
                   closeOnce, trackVars, cpc, nextSender, routerReceiving, delivered,
                   panicked,
                   copyVars, clientVars>>

(***************************************************************************)
(* The client: PeerActions.js                                              *)
(***************************************************************************)

\* addPeer({ peer, userId }) and removePeer(userId): the actions dispatched.
addPeer(p, u) == [type |-> "PEER_ADD", userId |-> u, peer |-> p]
removePeer(u) == [type |-> "PEER_REMOVE", userId |-> u, peer |-> 0]

\* The peers reducer of the store: PEER_ADD stores the peer under its userId,
\* PEER_REMOVE drops the entry of the userId.
peersReducer(state, action) ==
    IF action.type = "PEER_ADD"
    THEN [state EXCEPT ![action.userId] = action.peer]
    ELSE [state EXCEPT ![action.userId] = 0]

\* The store after the actions of the sequence as have been dispatched in order.
RECURSIVE DispatchAll(_, _)
DispatchAll(state, as) ==
    IF as = <<>> THEN state
    ELSE DispatchAll(peersReducer(state, Head(as)), Tail(as))

\* createPeer that does not clean up the old peer of the user.
createPeerNoCleanup(u) ==
    /\ Len(peerUser) < MaxPeers
    /\ LET peer == Len(peerUser) + 1
           actions == <<addPeer(peer, u)>> IN
       /\ UNCHANGED destroyed
       /\ peerUser' = Append(peerUser, u)
       /\ onceError' = onceError \cup {peer}
       /\ onceClose' = onceClose \cup {peer}
       /\ dispatched' = dispatched \o actions
       /\ peers' = DispatchAll(peers, actions)
    /\ UNCHANGED <<listenerVars, trackVars, cpc, apiVars, routerReceiving, delivered,
                   panicked, copyVars>>

\* createPeer({ user }): an old peer of the user in the store is destroyed and
\* PEER_REMOVE is dispatched; a new Peer is constructed, its error and close handlers
\* are registered with once, and PEER_ADD is dispatched.  The thunk runs to its end
\* without yielding.
createPeer(u) ==
    /\ Len(peerUser) < MaxPeers
    /\ LET oldPeer == peers[u]
           peer == Len(peerUser) + 1
           actions == IF oldPeer # 0 THEN <<removePeer(u), addPeer(peer, u)>>
                                     ELSE <<addPeer(peer, u)>> IN
       /\ destroyed' = IF oldPeer # 0 THEN destroyed \cup {oldPeer} ELSE destroyed
       /\ peerUser' = Append(peerUser, u)
       /\ onceError' = onceError \cup {peer}
       /\ onceClose' = onceClose \cup {peer}
       /\ dispatched' = dispatched \o actions
       /\ peers' = DispatchAll(peers, actions)
    /\ UNCHANGED <<listenerVars, trackVars, cpc, apiVars, routerReceiving, delivered,
                   panicked, copyVars>>

\* Peer p emits error: handleError of its user's handler runs (once per peer).  It
\* destroys the peer the store holds for the user, if any, which need not be p, and
\* dispatches PEER_REMOVE.
handleError(p) ==
    /\ p \in onceError
    /\ LET u == peerUser[p]
           peer == peers[u]
           actions == <<removePeer(u)>> IN
       /\ destroyed' = IF peer # 0 THEN destroyed \cup {peer} ELSE destroyed
       /\ onceError' = onceError \ {p}
       /\ dispatched' = dispatched \o actions
       /\ peers' = DispatchAll(peers, actions)
    /\ UNCHANGED <<listenerVars, trackVars, cpc, apiVars, routerReceiving, delivered,
                   panicked, copyVars, peerUser, onceClose>>

\* Peer p emits close (after destroy() or on its own): handleClose dispatches
\* PEER_REMOVE for the peer's user and destroys nothing.
handleClose(p) ==
    /\ p \in onceClose
    /\ LET u == peerUser[p]
           actions == <<removePeer(u)>> IN
       /\ onceClose' = onceClose \ {p}
       /\ dispatched' = dispatched \o actions
       /\ peers' = DispatchAll(peers, actions)
    /\ UNCHANGED <<listenerVars, trackVars, cpc, apiVars, routerReceiving, delivered,
                   panicked, copyVars, peerUser, destroyed, onceError>>

(***************************************************************************)
(* Specifications                                                          *)
(***************************************************************************)

\* Every goroutine of the listener together.
NextAll ==
    \/ \E t \in Tracks : handleTrack(t)
    \/ \E t \in Tracks : handleTrackAppend(t)
    \/ \E t \in Tracks : handleTrackSend(t)
    \/ \E t \in Tracks : pliFirst(t)
    \/ \E t \in Tracks : pliTick(t)
    \/ \E t \in Tracks : pliWrite(t)
    \/ \E t \in Tracks : forwardCopy(t)
    \/ \E t \in Tracks : forwardClosedPipe(t)
    \/ \E t \in Tracks : forwardExit(t)
    \/ \E t \in Tracks : forwardSend(t)
    \/ \E t \in Tracks : sendOnClosedChannel(t)
    \/ \E c \in Closers : CloseCall(c)
    \/ \E c \in Closers : closeOnceDo(c)
    \/ \E c \in Closers : CloseSignal(c)
    \/ \E c \in Closers : CloseLock(c)
    \/ \E c \in Closers : CloseChannel(c)
    \/ RouterStop
    \/ \E a \in Callers : AddTrackLock(a)
    \/ \E a \in Callers : AddTrack(a)
    \/ \E a \in Callers : RemoveTrackLock(a)
    \/ \E a \in Callers : RemoveTrack(a)

FullSpec == Init /\ [][NextAll]_vars

\* The event side of the listener: inbound tracks, their forwarding goroutines, Close
\* and the Router.  Left out are the goroutines that share no state with the event
\* path: the PLI goroutine (it reads only its ticker), and AddTrack and RemoveTrack
\* (they share only localTracksMu, which they hold across a body that cannot block).
Next ==
    \/ \E t \in Tracks : handleTrack(t)
    \/ \E t \in Tracks : handleTrackAppend(t)
    \/ \E t \in Tracks : handleTrackSend(t)
    \/ \E t \in Tracks : forwardCopy(t)
    \/ \E t \in Tracks : forwardClosedPipe(t)
    \/ \E t \in Tracks : forwardExit(t)
    \/ \E t \in Tracks : forwardSend(t)
    \/ \E t \in Tracks : sendOnClosedChannel(t)
    \/ \E c \in Closers : CloseCall(c)
    \/ \E c \in Closers : closeOnceDo(c)
    \/ \E c \in Closers : CloseSignal(c)
    \/ \E c \in Closers : CloseLock(c)
    \/ \E c \in Closers : CloseChannel(c)
    \/ RouterStop

Spec == Init /\ [][Next]_vars

\* The application side: concurrent AddTrack and RemoveTrack calls, with the handler
\* steps that share localTracksMu and localTracks with them.
NextApi ==
    \/ \E a \in Callers : AddTrackLock(a)
    \/ \E a \in Callers : AddTrack(a)
    \/ \E a \in Callers : RemoveTrackLock(a)
    \/ \E a \in Callers : RemoveTrack(a)
    \/ \E t \in Tracks : handleTrack(t)
    \/ \E t \in Tracks : handleTrackAppend(t)

ApiSpec == Init /\ [][NextApi]_vars

\* The scheduling the Go runtime and the collaborators guarantee: a goroutine that can
\* take its next step takes it, a lock that stays free is acquired, and a send that
\* stays matched by a receiving Router completes (blocked senders are served in
\* order).  Nothing obliges the session to announce a track, a remote read to
\* return, a caller to call Close, or the Router to go on receiving.
Fairness ==
    /\ \A t \in Tracks :
          /\ WF_vars(handleTrackAppend(t))
          /\ WF_vars(handleTrackSend(t))
          /\ WF_vars(forwardClosedPipe(t))
          /\ WF_vars(forwardExit(t))
          /\ WF_vars(forwardSend(t))
          /\ WF_vars(sendOnClosedChannel(t))
    /\ \A c \in Closers :
          /\ WF_vars(closeOnceDo(c))
          /\ WF_vars(CloseSignal(c))
          /\ WF_vars(CloseLock(c))
          /\ WF_vars(CloseChannel(c))

FairSpec == Init /\ [][Next]_vars /\ Fairness

\* The event side together with the PLI goroutines.  The ticker delivers its ticks
\* while it runs, and the PLI goroutine takes each step it can take.
NextPli ==
    \/ Next
    \/ \E t \in Tracks : pliFirst(t)
    \/ \E t \in Tracks : pliTick(t)
    \/ \E t \in Tracks : pliWrite(t)

FairnessPli ==
    \A t \in Tracks :
        /\ WF_vars(pliFirst(t))
        /\ WF_vars(pliTick(t))
        /\ WF_vars(pliWrite(t))

PliSpec == Init /\ [][NextPli]_vars /\ Fairness /\ FairnessPli

\* The client: peers are created for users, and the peers emit error and close.
NextClient ==
    \/ \E u \in Users : createPeer(u)
    \/ \E p \in 1..MaxPeers : handleError(p)
    \/ \E p \in 1..MaxPeers : handleClose(p)

ClientSpec == Init /\ [][NextClient]_vars

\* Two (or more) remote tracks arriving concurrently on a listener that is not closed:
\* their handlers and forwarding goroutines, and a Router that receives until it stops.
InitPair == InitOn(PairTracks)

NextPair ==
    \/ \E t \in PairTracks : handleTrack(t)
    \/ \E t \in PairTracks : handleTrackAppend(t)
    \/ \E t \in PairTracks : handleTrackSend(t)
    \/ \E t \in PairTracks : forwardCopy(t)
    \/ \E t \in PairTracks : forwardClosedPipe(t)
    \/ \E t \in PairTracks : forwardExit(t)
    \/ \E t \in PairTracks : forwardSend(t)
    \/ RouterStop

FairnessPair ==
    \A t \in PairTracks :
        /\ WF_vars(handleTrackAppend(t))
        /\ WF_vars(handleTrackSend(t))
        /\ WF_vars(forwardClosedPipe(t))
        /\ WF_vars(forwardExit(t))
        /\ WF_vars(forwardSend(t))

PairSpec == InitPair /\ [][NextPair]_vars /\ FairnessPair

\* The inbound tracks with the bytes their forwarding goroutines copy: the handler
\* starts the goroutine and announces the track, the goroutine copies packets until a
\* read or a write fails and emits its Remove event.
NextCopy ==
    \/ \E t \in Tracks : handleTrack(t)
    \/ \E t \in Tracks : handleTrackAppend(t)
    \/ \E t \in Tracks : handleTrackSend(t)
    \/ \E t \in Tracks : forwardCopyPacket(t)
    \/ \E t \in Tracks : forwardClosedPipe(t)
    \/ \E t \in Tracks : forwardExit(t)
    \/ \E t \in Tracks : forwardSend(t)

CopySpec == Init /\ [][NextCopy]_vars

(***************************************************************************)
(* Properties                                                              *)
(***************************************************************************)

\* The positions of s that hold event type e.
Positions(s, e) == {i \in DOMAIN s : s[i] = e}

CloseReturned == \E c \in Closers : cpc[c] = "returned"

\* C1: the Router never receives Remove for a local track before it has received
\* Add for that track: every Remove in delivered[t] has an Add at an earlier position.
C1_AddBeforeRemove ==
    \A t \in Tracks :
        \A i \in Positions(delivered[t], TrackEventTypeRemove) :
            \E j \in Positions(delivered[t], TrackEventTypeAdd) : j < i

\* C2: once some call of Close has returned, no step delivers a TrackEvent.
C2_NoEventAfterClose == [][CloseReturned => delivered' = delivered]_vars

\* C2 witness: Close has returned while a handler still has its Add to send and a
\* forwarding goroutine has exited without its Remove having been received.
C2_Witness ==
    /\ CloseReturned
    /\ \E t \in Tracks :
          /\ hpc[t] = "send"
          /\ wpc[t] = "stopped"
          /\ delivered[t] = <<>>

\* C3: no interleaving of handleTrack with Close performs a send on the closed events
\* channel: the program never panics with "send on closed channel".
C3_NoSendOnClosedChannel == panicked # PanicSendOnClosed

\* C4: however many times Close is called, the close signal and the events channel
\* are closed once (no second close, which would panic), and once any call has
\* returned the listener is in the one closed state, with p.mu released.
C4_CloseIdempotent ==
    /\ panicked # PanicCloseOfClosed
    /\ CloseReturned =>
          /\ closeChannel = "closed"
          /\ tracksChannel = "closed"
          /\ tracksChannelClosed
          /\ ~mu.writer
          /\ closeOnce = [done |-> TRUE, m |-> FALSE]
          /\ \A c \in Closers : cpc[c] \in {"idle", "do", "returned"}

\* C4 witness: every caller has called Close and every call has returned.
C4_Witness == \A c \in Closers : cpc[c] = "returned"

\* C5: a call of Close eventually returns (in a run the program survives: a panic
\* ends the program and the call with it).
C5_CloseEventuallyReturns ==
    \A c \in Closers : (cpc[c] = "do") ~> (cpc[c] = "returned" \/ ~Running)

\* C9: the events channel carries at most one Add and at most one Remove per local
\* track; a handler that has returned after creating its local track has sent
\* exactly one Add, and no Add exists before the handler reaches its send.
C9_AtMostOneAddOneRemove ==
    \A t \in Tracks :
        /\ Cardinality(Positions(delivered[t], TrackEventTypeAdd)) <= 1
        /\ Cardinality(Positions(delivered[t], TrackEventTypeRemove)) <= 1
        /\ hpc[t] = "done" => Cardinality(Positions(delivered[t], TrackEventTypeAdd)) = 1
        /\ hpc[t] \in {"idle", "failed", "append"} =>
              Positions(delivered[t], TrackEventTypeAdd) = {}

\* C9 witness: a track for which the Router has received both events.
C9_Witness == \E t \in Tracks : Len(delivered[t]) = 2 /\ hpc[t] = "done" /\ wpc[t] = "stopped"

\* C10: after a read failure or a non-benign write failure, Remove for the track is
\* eventually delivered unless the listener gets closed or the Router stops
\* receiving; and a write that failed with io.ErrClosedPipe sends the goroutine back
\* into its loop, with no event delivered and the ticker left running.
C10_RemoveAfterFatalError ==
    /\ \A t \in Tracks :
          (wpc[t] \in {"exitRead", "exitWrite"}) ~>
              \/ Positions(delivered[t], TrackEventTypeRemove) # {}
              \/ tracksChannelClosed
              \/ ~routerReceiving
    /\ [][\A t \in Tracks :
             (wpc[t] = "closedPipe" /\ wpc'[t] # "closedPipe") =>
                 /\ wpc'[t] = "loop"
                 /\ delivered' = delivered
                 /\ ticker'[t] = ticker[t]]_vars

\* C10 witness: Remove was delivered after a failure while the listener was open and
\* the Router receiving.
C10_Witness ==
    \E t \in Tracks :
        /\ Positions(delivered[t], TrackEventTypeRemove) # {}
        /\ ~tracksChannelClosed
        /\ routerReceiving
        /\ \A c \in Closers : cpc[c] = "idle"

RemoveTrackReturns(a) == apc[a].op = "RemoveTrack" /\ apc'[a].op = "idle"

AddTrackReturns(a) == apc[a].op = "AddTrack" /\ apc'[a].op = "idle"

\* The entries of tracks other than t are the same before and after the step.
OthersUnchanged(t) ==
    /\ DOMAIN rtpSenderByTrack' \ {t} = DOMAIN rtpSenderByTrack \ {t}
    /\ \A u \in DOMAIN rtpSenderByTrack \ {t} : rtpSenderByTrack'[u] = rtpSenderByTrack[u]

\* C6: RemoveTrack(t) with no sender recorded for t returns UnknownTrack, does not
\* call the session's RemoveTrack, and leaves rtpSenderByTrack and localTracks as
\* they were.
C6_RemoveUnknownTrack ==
    [][\A a \in Callers :
          (RemoveTrackReturns(a) /\ apc[a].track \notin DOMAIN rtpSenderByTrack) =>
              /\ lastCall' = [op |-> "RemoveTrack", track |-> apc[a].track,
                              err |-> "UnknownTrack"]
              /\ sessionRemoveCalls' = sessionRemoveCalls
              /\ sessionSenders' = sessionSenders
              /\ rtpSenderByTrack' = rtpSenderByTrack
              /\ localTracks' = localTracks]_vars

\* C6 witness: RemoveTrack of an unknown track has returned while another track has
\* a sender recorded.
C6_Witness ==
    /\ lastCall.op = "RemoveTrack"
    /\ lastCall.err = "UnknownTrack"
    /\ DOMAIN rtpSenderByTrack # {}

\* C7: the RemoveTrack(t) that follows a successful AddTrack(t) finds the sender
\* (it does not return UnknownTrack) and, when the session detaches it, returns nil,
\* hands the session the recorded sender and leaves no key for t, the other entries
\* untouched; the RemoveTrack(t) that follows a successful RemoveTrack(t) returns
\* UnknownTrack.
C7_AddThenRemove ==
    [][\A a \in Callers :
          RemoveTrackReturns(a) =>
              LET t == apc[a].track IN
              /\ lastCall = [op |-> "AddTrack", track |-> t, err |-> "nil"] =>
                    /\ lastCall'.err \in {"nil", "DetachFailed"}
                    /\ lastCall'.err = "nil" =>
                          /\ t \notin DOMAIN rtpSenderByTrack'
                          /\ sessionSenders' = sessionSenders \ {rtpSenderByTrack[t]}
                          /\ rtpSenderByTrack[t] \in sessionSenders
                          /\ OthersUnchanged(t)
              /\ lastCall = [op |-> "RemoveTrack", track |-> t, err |-> "nil"] =>
                    lastCall'.err = "UnknownTrack"]_vars

\* C7 witness: RemoveTrack(t) has returned nil, t has no key and another track still
\* has its sender.
C7_Witness ==
    /\ lastCall.op = "RemoveTrack"
    /\ lastCall.err = "nil"
    /\ lastCall.track \notin DOMAIN rtpSenderByTrack
    /\ DOMAIN rtpSenderByTrack # {}

\* C8: AddTrack(t) returns AttachFailed and leaves rtpSenderByTrack as it was when the
\* session attached no sender; when the session attached one, AddTrack returns nil and
\* t maps to that sender; no other key is gained either way.
C8_AddTrackAttachFailed ==
    [][\A a \in Callers :
          AddTrackReturns(a) =>
              LET t == apc[a].track IN
              /\ lastCall'.op = "AddTrack"
              /\ lastCall'.track = t
              /\ OthersUnchanged(t)
              /\ IF sessionSenders' = sessionSenders
                 THEN /\ lastCall'.err = "AttachFailed"
                      /\ rtpSenderByTrack' = rtpSenderByTrack
                 ELSE /\ lastCall'.err = "nil"
                      /\ t \in DOMAIN rtpSenderByTrack'
                      /\ sessionSenders' \ sessionSenders = {rtpSenderByTrack'[t]}]_vars

\* C8 witness: AddTrack(t) has returned AttachFailed and t has no key.
C8_Witness ==
    /\ lastCall.op = "AddTrack"
    /\ lastCall.err = "AttachFailed"
    /\ lastCall.track \notin DOMAIN rtpSenderByTrack

\* C11: for every remote track, the packets handed to its local track's Write are, in
\* order, exactly the packets its reads returned, byte for byte (each the first n bytes
\* of the buffer), and every byte written to a local track was read from its own
\* remote track.
C11_WritesAreReadsInOrder ==
    \A t \in DOMAIN writeLog :
        /\ writeLog[t] = readLog[t]
        /\ \A k \in 1..Len(writeLog[t]) :
              \A i \in 1..Len(writeLog[t][k]) : writeLog[t][k][i] = <<t, k>>

\* A forwarding goroutine has stopped after copying a packet and then a shorter one,
\* so that rtpBuf still held bytes of the first behind the second.
C11_Witness ==
    \E t \in Tracks :
        /\ wpc[t] = "stopped"
        /\ Len(writeLog[t]) >= 2
        /\ Len(readLog[t][2]) < Len(readLog[t][1])
        /\ rtpBuf[t][BufLen] # ZeroByte

\* A step of the handler or the forwarding goroutine of track t.
StepOfTrack(t) == hpc'[t] # hpc[t] \/ wpc'[t] # wpc[t] \/ delivered'[t] # delivered[t]

\* C12: with several remote tracks arriving concurrently on a listener that is not
\* closed, every track that is announced while the Router receives has its Add
\* delivered, exactly once; and the tracks are independent: a forwarding loop can
\* always take its next iteration, whatever the other tracks' handlers and goroutines
\* are doing (a failed read, an Add or a Remove emit that is blocked), and no step of
\* one track moves another track's handler or forwarding goroutine.
C12_TracksIndependent ==
    /\ \A t \in PairTracks :
          (hpc[t] = "send") ~>
              (Positions(delivered[t], TrackEventTypeAdd) # {} \/ ~routerReceiving)
    /\ [](\A t \in PairTracks :
            /\ Cardinality(Positions(delivered[t], TrackEventTypeAdd)) <= 1
            /\ wpc[t] = "loop" => ENABLED forwardCopy(t))
    /\ [][\A t, u \in PairTracks :
            (t # u /\ StepOfTrack(t)) => (wpc'[u] = wpc[u] /\ hpc'[u] = hpc[u])]_vars

\* Two tracks have been announced to the Router; the Remove emit of one of them is
\* blocked on a Router that has stopped receiving, and the other is still forwarding.
C12_Witness ==
    \E t, u \in PairTracks :
        /\ t # u
        /\ delivered[t] = <<TrackEventTypeAdd>>
        /\ delivered[u] = <<TrackEventTypeAdd>>
        /\ wpc[t] = "send"
        /\ ~routerReceiving
        /\ wpc[u] = "loop"

\* C13: when NewTrack fails in the inbound handler, the handler returns without any
\* effect on the listener: the step changes nothing but the handler's own position,
\* and from then on the track is not in localTracks, no event has been delivered for
\* it, and it has no PLI goroutine, forwarding goroutine or ticker.
C13_NewTrackFailureNoEffect ==
    /\ [](\A t \in Tracks :
            hpc[t] = "failed" =>
                /\ \A i \in DOMAIN localTracks : localTracks[i] # t
                /\ delivered[t] = <<>>
                /\ wpc[t] = "none"
                /\ pliPc[t] = "none"
                /\ ticker[t] = "none")
    /\ [][\A t \in Tracks :
            (hpc[t] = "idle" /\ hpc'[t] = "failed") =>
                UNCHANGED <<listenerVars, wpc, pliPc, ticker, delivered, panicked>>]_vars

\* NewTrack failed for a track and the listener has since been closed.
C13_Witness ==
    \E t \in Tracks : hpc[t] = "failed" /\ tracksChannelClosed

\* C14, as the code has it: the forwarding goroutine's test of tracksChannelClosed and
\* its send of Remove are atomic against Close.  From the test to the end of the send
\* the goroutine holds p.mu for reading, so no Close holds it for writing, and the
\* channel is open and not flagged closed: the goroutine never sends Remove on a
\* closed channel.
C14_SendUnderReadLock ==
    \A t \in Tracks :
        wpc[t] = "send" =>
            /\ mu.readers >= 1
            /\ ~mu.writer
            /\ tracksChannel = "open"
            /\ ~tracksChannelClosed

\* A forwarding goroutine is between its test and its send while a Close caller waits
\* for p.mu.
C14_Witness ==
    \E t \in Tracks, c \in Closers : wpc[t] = "send" /\ cpc[c] = "lock"

\* C14, as stated: the test and the send are not atomic against Close, that is, while
\* a forwarding goroutine is between having seen tracksChannelClosed false and its
\* send, a Close caller that has reached p.mu.Lock() can go on to close the channel.
C14_CloseBetweenTestAndSend ==
    \A t \in Tracks, c \in Closers :
        (wpc[t] = "send" /\ cpc[c] = "lock") => ENABLED CloseLock(c)

\* C15: while the listener is not closed, every track in localTracks has its
\* forwarding goroutine still running: a track whose goroutine has ended is not listed.
C15_ListedTracksAreForwarding ==
    ~tracksChannelClosed =>
        \A i \in DOMAIN localTracks : wpc[localTracks[i]] # "stopped"

\* C16: a RemoveTrack that returns the session's error leaves the sender recorded in
\* rtpSenderByTrack, so that a later RemoveTrack of the track reaches the session again.
C16_DetachFailedKeepsSender ==
    [][\A a \in Callers :
          (RemoveTrackReturns(a) /\ lastCall'.err = "DetachFailed") =>
              /\ apc[a].track \in DOMAIN rtpSenderByTrack'
              /\ rtpSenderByTrack'[apc[a].track] = rtpSenderByTrack[apc[a].track]]_vars

\* C17: once the forwarding goroutine of a track has stopped, the track's PLI
\* goroutine eventually terminates (or the program has ended in a panic): no PLI
\* goroutine stays alive for ever.
C17_PliEventuallyTerminates ==
    \A t \in Tracks :
        (wpc[t] = "stopped") ~>
            (pliPc[t] \notin {"first", "waiting", "tick"} \/ ~Running)

\* C18: the handler appends the local track to localTracks before any event of the
\* track is emitted (and before the track's goroutines start): at the moment the
\* Router has received an event for a track, Add or Remove, the track is in
\* localTracks.
C18_ListedBeforeEvents ==
    \A t \in Tracks :
        delivered[t] # <<>> => \E i \in DOMAIN localTracks : localTracks[i] = t

\* C19: concurrent AddTrack and RemoveTrack calls are serialized: at most one caller
\* is inside a body, and only while it holds localTracksMu, so the calls take effect
\* one after the other.  In particular a sender is handed to the session's RemoveTrack
\* at most once: of two RemoveTrack(t) with no AddTrack(t) in between, the second
\* finds no sender, returns UnknownTrack and does not call the session.
C19_CallsSerialized ==
    /\ [](/\ Cardinality({a \in Callers : apc[a].op # "idle"}) <= 1
          /\ localTracksMu <=> (\E a \in Callers : apc[a].op # "idle")
          /\ sessionRemoveCalls + Cardinality(DOMAIN rtpSenderByTrack) <= nextSender)
    /\ [][\A a \in Callers :
            (/\ RemoveTrackReturns(a)
             /\ lastCall.op = "RemoveTrack"
             /\ lastCall.track = apc[a].track
             /\ lastCall.err # "UnknownTrack") =>
                /\ lastCall'.err = "UnknownTrack"
                /\ sessionRemoveCalls' = sessionRemoveCalls]_vars

\* After one successful AddTrack(t) a RemoveTrack(t) has succeeded, and a second
\* caller is inside RemoveTrack(t).
C19_Witness ==
    \E a \in Callers :
        /\ apc[a].op = "RemoveTrack"
        /\ lastCall = [op |-> "RemoveTrack", track |-> apc[a].track, err |-> "nil"]
        /\ nextSender = 1
        /\ sessionRemoveCalls = 1

\* The peers of user u that were added and since then neither destroyed nor removed:
\* PEER_ADD was dispatched for the peer, no PEER_REMOVE for u was dispatched after it,
\* and destroy() was not called on it.
LivePeers(u) ==
    {p \in 1..Len(peerUser) :
        /\ peerUser[p] = u
        /\ p \notin destroyed
        /\ \E i \in DOMAIN dispatched :
              /\ dispatched[i] = addPeer(p, u)
              /\ \A j \in DOMAIN dispatched : j > i => dispatched[j] # removePeer(u)}

\* C20: createPeer for a user whose peer is in the store destroys that peer and
\* dispatches PEER_REMOVE and then PEER_ADD; handleError destroys the stored peer, if
\* any, and dispatches PEER_REMOVE; and at all times every user has at most one peer
\* that was added and neither destroyed nor removed.
C20_AtMostOneLivePeer ==
    /\ [](\A u \in Users : Cardinality(LivePeers(u)) <= 1)
    /\ [][\A u \in Users :
            (Len(peerUser') = Len(peerUser) + 1 /\ peerUser'[Len(peerUser')] = u
             /\ peers[u] # 0) =>
                /\ peers[u] \in destroyed'
                /\ dispatched' = dispatched \o
                                    <<removePeer(u), addPeer(Len(peerUser'), u)>>]_vars
    /\ [][\A p \in onceError :
            p \notin onceError' =>
                /\ peers[peerUser[p]] # 0 => peers[peerUser[p]] \in destroyed'
                /\ dispatched' = Append(dispatched, removePeer(peerUser[p]))]_vars

\* A user's peer was replaced by createPeer: the old peer is destroyed, the new one is
\* the user's only live peer, and some peer has emitted an error.
C20_Witness ==
    \E u \in Users :
        /\ peers[u] # 0
        /\ LivePeers(u) = {peers[u]}
        /\ \E p \in destroyed : peerUser[p] = u
        /\ \E q \in 1..Len(peerUser) : q \notin onceError

====
